---- MODULE Spec2Model ----
(***************************************************************************)
(* The SIR epidemic model of chap12.ipynb and chap14.ipynb: make_system,   *)
(* update_func, run_simulation, calc_total_infected, the interventions     *)
(* add_immunization and add_hand_washing, and the parameter sweeps.        *)
(*                                                                         *)
(* Numbers.  The notebooks compute in floating point.  Here a number x is  *)
(* the integer x * Scale; a product or a quotient is rounded to the        *)
(* nearest multiple of 1/Scale (ties to even), the way every floating      *)
(* point operation rounds to the nearest representable value.  Sums and    *)
(* differences are exact, so a statement that holds here as an exact       *)
(* equality of sums holds in the notebooks up to the rounding of the       *)
(* additions.                                                              *)
(***************************************************************************)
EXTENDS Integers, Sequences, FiniteSets, TLC

VARIABLES
    mode,      \* the entry point that is running
    pc,        \* position inside it: "call", "loop" or "done"
    system,    \* run_simulation: its argument, a System
    frame,     \* run_simulation: the TimeFrame built so far
    todo,      \* run_simulation: the values of the for loop still to visit
    calls,     \* run_simulation: number of update_func invocations so far
    args,      \* sweeps, interventions: the arguments of the function
    pending,   \* sweeps: the values of the for loop still to visit
    sweep,     \* sweeps: the SweepSeries (sweep_parameters: the SweepFrame)
    nsim,      \* sweeps: number of run_simulation calls so far
    env,       \* sweeps: module-level beta and gamma, and the local `system`;
               \* notebook: the module-level variables of chap12
    printed    \* notebook: the lines the running cell has printed

vars == <<mode, pc, system, frame, todo, calls, args, pending, sweep, nsim, env, printed>>

----------------------------------------------------------------------------
(* Bounds of the model *)

\* longest simulated interval of the arbitrary Systems given to run_simulation
MaxT == 3

\* longest input sequence given to a sweep
MaxLen == 2

----------------------------------------------------------------------------
(* Arithmetic *)

\* 1.0 is Scale units; a multiple of 90, 3 and 4 so that 89/90, 1/3, 1/4 are exact
Scale == 90 * 120

Abs(n) == IF n < 0 THEN -n ELSE n

\* n / d for d > 0, rounded to the nearest integer, ties to even
RoundDivPos(n, d) ==
    LET q == n \div d
        r == n % d
    IN  IF 2 * r < d THEN q
        ELSE IF 2 * r > d THEN q + 1
        ELSE IF q % 2 = 0 THEN q ELSE q + 1

RoundDiv(n, d) ==
    LET m == IF d < 0 THEN -n ELSE n
        e == Abs(d)
    IN  IF m < 0 THEN -RoundDivPos(-m, e) ELSE RoundDivPos(m, e)

\* a * b
Mul(a, b) == RoundDiv(a * b, Scale)

\* a / b (both plain integers, or both numbers)
Div(a, b) == RoundDiv(a * Scale, b)

\* the number n (a Python int used as a float)
Num(n) == n * Scale

----------------------------------------------------------------------------
(* State, System, TimeFrame *)

State(s, i, r) == [S |-> s, I |-> i, R |-> r]

Total(state) == state.S + state.I + state.R

System(init, t0, t_end, beta, gamma) ==
    [init |-> init, t0 |-> t0, t_end |-> t_end, beta |-> beta, gamma |-> gamma]

\* TimeFrame(columns=...): a table with no rows; rows are keyed by the day
TimeFrame == << >>

\* frame.row[k] = v: sets the row labelled k, adding it when it is missing
SetRow(fr, k, v) == (k :> v) @@ fr

\* linrange(start, stop): the integers from start to stop, both included
linrange(start, stop) ==
    IF stop < start THEN << >>
    ELSE [k \in 1..(stop - start + 1) |-> start + k - 1]

\* make_system(beta, gamma)
make_system(beta, gamma) ==
    LET counts == State(89, 1, 0)
        total  == Total(counts)
        init   == State(Div(counts.S, total), Div(counts.I, total),
                        Div(counts.R, total))
    IN  System(init, 0, 7 * 14, beta, gamma)

\* update_func that forgets to take the recovered out of I
update_func_keeps_recovered(state, sys) ==
    LET infected  == Mul(Mul(sys.beta, state.I), state.S)
        recovered == Mul(sys.gamma, state.I)
    IN  State(state.S - infected, state.I + infected, state.R + recovered)

\* update_func that applies the change of I with the wrong sign
update_func_wrong_sign(state, sys) ==
    LET infected  == Mul(Mul(sys.beta, state.I), state.S)
        recovered == Mul(sys.gamma, state.I)
    IN  State(state.S - infected, state.I - (infected - recovered),
              state.R + recovered)

\* update_func that computes the recovered with beta instead of gamma
update_func_wrong_rate(state, sys) ==
    LET infected  == Mul(Mul(sys.beta, state.I), state.S)
        recovered == Mul(sys.beta, state.I)
    IN  State(state.S - infected, state.I + (infected - recovered),
              state.R + recovered)

\* update_func(state, t, system) of chap12, update_func(state, system) of chap14
update_func(state, sys) ==
    LET s == state.S
        i == state.I
        r == state.R
        infected  == Mul(Mul(sys.beta, i), s)
        recovered == Mul(sys.gamma, i)
    IN  State(s - infected, i + (infected - recovered), r + recovered)

\* loop body whose update changes the row it is given instead of a copy
LoopBody_updates_in_place(fr, t, sys) ==
    LET new == update_func(fr[t], sys)
    IN  SetRow(SetRow(fr, t, new), t + 1, new)

\* the body of the for loop of run_simulation: frame.row[t+1] = update_func(...)
LoopBody(fr, t, sys) == SetRow(fr, t + 1, update_func(fr[t], sys))

\* the values the for loop of run_simulation visits
\*   chap12: linrange(system.t0, system.t_end-1)
\*   chap14: linrange(t0, t_end)
LoopRange(sys, chap) ==
    IF chap = 12 THEN linrange(sys.t0, sys.t_end - 1)
    ELSE linrange(sys.t0, sys.t_end)

\* frame = TimeFrame(...); frame.row[t0] = init
FirstRow(sys) == SetRow(TimeFrame, sys.t0, sys.init)

\* the for loop of run_simulation over the values ts, in order: the first
\* half of ts, then the second half from the frame the first half leaves;
\* reading frame.row[t] of a day that has no row raises KeyError and ends
\* the loop
RECURSIVE RunLoop(_, _, _)
RunLoop(fr, ts, sys) ==
    IF ts = << >> THEN fr
    ELSE IF Head(ts) \notin DOMAIN fr THEN fr
    ELSE IF Len(ts) = 1 THEN LoopBody(fr, Head(ts), sys)
    ELSE LET half == Len(ts) \div 2
             mid  == RunLoop(fr, SubSeq(ts, 1, half), sys)
         IN  RunLoop(mid, SubSeq(ts, half + 1, Len(ts)), sys)

\* run_simulation(system, update_func), as one call
run_simulation(sys, chap) == RunLoop(FirstRow(sys), LoopRange(sys, chap), sys)

\* calc_total_infected with the two days exchanged
calc_total_infected_swapped(results, sys) ==
    results[sys.t_end].S - results[sys.t0].S

\* calc_total_infected(results, system)
calc_total_infected(results, sys) == results[sys.t0].S - results[sys.t_end].S

----------------------------------------------------------------------------
(* Interventions (chap12) *)

\* add_immunization that takes the fraction out of S and forgets to add it to R
add_immunization_drops_fraction(sys, fraction) ==
    [sys EXCEPT !.init.S = @ - fraction]

\* add_immunization(system, fraction)
add_immunization(sys, fraction) ==
    [sys EXCEPT !.init.S = @ - fraction, !.init.R = @ + fraction]

\* exp(x), tabulated at the whole numbers -7 .. 5
exp(x) ==
    CASE x = Num(-7) -> 10
      [] x = Num(-6) -> 27
      [] x = Num(-5) -> 73
      [] x = Num(-4) -> 198
      [] x = Num(-3) -> 538
      [] x = Num(-2) -> 1462
      [] x = Num(-1) -> 3973
      [] x = Num(0)  -> 10800
      [] x = Num(1)  -> 29357
      [] x = Num(2)  -> 79802
      [] x = Num(3)  -> 216924
      [] x = Num(4)  -> 589660
      [] x = Num(5)  -> 1602862

\* denom ** (1/nu), for the only nu the notebook uses
Root(denom, nu) == CASE nu = 1 -> denom

\* logistic(x, A, B, C, M, K, Q, nu); x, A, C, M, Q and nu are Python ints
logistic(x, A, B, C, M, K, Q, nu) ==
    LET exponent == (-B) * (x - M)
        denom    == Num(C) + Q * exp(exponent)
    IN  Num(A) + Div(K - Num(A), Root(denom, nu))

\* compute_factor(spending) = logistic(spending, M=500, K=0.2, B=0.01)
compute_factor(spending) ==
    logistic(spending, 0, Div(1, 100), 1, 500, Div(2, 10), 1, 1)

\* add_hand_washing that multiplies beta by factor instead of 1 - factor
add_hand_washing_keeps_factor(sys, spending) ==
    LET factor == compute_factor(spending)
    IN  [sys EXCEPT !.beta = Mul(@, factor)]

\* add_hand_washing(system, spending)
add_hand_washing(sys, spending) ==
    LET factor == compute_factor(spending)
    IN  [sys EXCEPT !.beta = Mul(@, Num(1) - factor)]

----------------------------------------------------------------------------
(* SweepSeries and SweepFrame *)

Range(seq) == { seq[k] : k \in DOMAIN seq }

\* SweepSeries(): an ordered mapping with no entry, kept as the sequence of
\* its entries [key, val]
SweepSeries == << >>

Keys(sw) == [k \in DOMAIN sw |-> sw[k].key]

HasKey(sw, key) == \E k \in DOMAIN sw : sw[k].key = key

Lookup(sw, key) == sw[CHOOSE k \in DOMAIN sw : sw[k].key = key].val

\* sweep[key] = val: replaces the value of an existing key, else appends
SetItem(sw, key, val) ==
    IF HasKey(sw, key)
    THEN [k \in DOMAIN sw |-> IF sw[k].key = key
                              THEN [key |-> key, val |-> val] ELSE sw[k]]
    ELSE Append(sw, [key |-> key, val |-> val])

\* SweepFrame(columns=labels): the column labels, no row, no cell
SweepFrame(labels) == [columns |-> labels, index |-> << >>, cells |-> << >>]

\* frame[label] = series: a frame with no row takes the keys of the series
\* as its rows; the column receives the values of the series at the rows of
\* the frame (a row the series lacks gets no cell)
SetColumn(fr, label, series) ==
    LET index == IF fr.index = << >> THEN Keys(series) ELSE fr.index
        new   == { <<row, label>> : row \in Range(index) \cap Range(Keys(series)) }
        old   == { p \in DOMAIN fr.cells : p[2] # label }
    IN  [columns |-> IF label \in Range(fr.columns) THEN fr.columns
                     ELSE Append(fr.columns, label),
         index   |-> index,
         cells   |-> [p \in old \cup new |->
                         IF p \in new THEN Lookup(series, p[1])
                         ELSE fr.cells[p]]]

----------------------------------------------------------------------------
(* Program constants (chap12) *)

tc == 3
tr == 4
num_students == 90
budget == 1200
price_per_dose == 100

\* max_doses = int(budget / price_per_dose)
max_doses == budget \div price_per_dose

\* dose_array = linrange(max_doses)
dose_array == linrange(0, max_doses)

\* the module-level beta = 1 / tc and gamma = 1 / tr, and the variable
\* `system` of the running sweep function, unbound before the first iteration
Globals == [beta |-> Div(1, tc), gamma |-> Div(1, tr), system |-> << >>]

\* linspace(start, stop, num): num evenly spaced values from start to stop,
\* both included (for the whole-number spacings the notebook uses)
linspace(start, stop, num) ==
    [k \in 1..num |-> start + ((k - 1) * (stop - start)) \div (num - 1)]

\* spending_array = linspace(0, 1200, 13)
spending_array == linspace(0, 1200, 13)

\* the module-level variables of chap12 when the cell of the hand-washing
\* loop starts: beta and gamma are bound, the others are not yet
NotebookGlobals ==
    [beta |-> Div(1, tc), gamma |-> Div(1, tr), system |-> << >>,
     results |-> << >>, fraction |-> << >>, spending |-> << >>]

----------------------------------------------------------------------------
(* The sweeps *)

\* sweep = SweepSeries(), the first statement of every 1-D sweep
sweep_new_with_baseline == <<[key |-> 0, val |-> 0]>>

sweep_new == SweepSeries

\* loop body of sweep_beta that records under gamma instead of system.beta
sweep_beta_body_keyed_by_gamma(sw, beta, gamma) ==
    LET sys     == make_system(beta, gamma)
        results == run_simulation(sys, 14)
    IN  SetItem(sw, sys.gamma, calc_total_infected(results, sys))

\* loop body of sweep_beta (chap14)
sweep_beta_body(sw, beta, gamma) ==
    LET sys     == make_system(beta, gamma)
        results == run_simulation(sys, 14)
    IN  SetItem(sw, sys.beta, calc_total_infected(results, sys))

RECURSIVE sweep_beta_loop(_, _, _)
sweep_beta_loop(sw, betas, gamma) ==
    IF betas = << >> THEN sw
    ELSE sweep_beta_loop(sweep_beta_body(sw, Head(betas), gamma),
                         Tail(betas), gamma)

\* sweep_beta(beta_array, gamma), as one call
sweep_beta(beta_array, gamma) == sweep_beta_loop(sweep_new, beta_array, gamma)

\* loop body of sweep_parameters that always sweeps the first gamma
sweep_parameters_body_first_gamma(fr, beta_array, gamma) ==
    SetColumn(fr, gamma, sweep_beta(beta_array, fr.columns[1]))

\* loop body of sweep_parameters (chap14)
sweep_parameters_body(fr, beta_array, gamma) ==
    SetColumn(fr, gamma, sweep_beta(beta_array, gamma))

\* loop body of sweep_hand_washing that builds the System once and reuses it
sweep_hand_washing_body_reuses_system(e, sw, spending) ==
    LET sys0    == IF e.system = << >> THEN make_system(e.beta, e.gamma)
                   ELSE e.system[1]
        sys     == add_hand_washing(sys0, spending)
        results == run_simulation(sys, 12)
    IN  [env   |-> [e EXCEPT !.system = <<sys>>],
         sweep |-> SetItem(sw, spending, calc_total_infected(results, sys))]

\* loop body of sweep_hand_washing (chap12); e holds the module-level beta
\* and gamma and the local `system`
sweep_hand_washing_body(e, sw, spending) ==
    LET sys0    == make_system(e.beta, e.gamma)
        sys     == add_hand_washing(sys0, spending)
        results == run_simulation(sys, 12)
    IN  [env   |-> [e EXCEPT !.system = <<sys>>],
         sweep |-> SetItem(sw, spending, calc_total_infected(results, sys))]

\* loop body of sweep_doses that gives the campaign the whole budget
sweep_doses_body_whole_budget(e, sw, doses) ==
    LET fraction == Div(doses, num_students)
        spending == budget
        sys0     == make_system(e.beta, e.gamma)
        sys1     == add_immunization(sys0, fraction)
        sys      == add_hand_washing(sys1, spending)
        results  == run_simulation(sys, 12)
    IN  [env   |-> [e EXCEPT !.system = <<sys>>],
         sweep |-> SetItem(sw, doses, calc_total_infected(results, sys))]

\* loop body of sweep_doses (chap12)
sweep_doses_body(e, sw, doses) ==
    LET fraction == Div(doses, num_students)
        spending == budget - doses * price_per_dose
        sys0     == make_system(e.beta, e.gamma)
        sys1     == add_immunization(sys0, fraction)
        sys      == add_hand_washing(sys1, spending)
        results  == run_simulation(sys, 12)
    IN  [env   |-> [e EXCEPT !.system = <<sys>>],
         sweep |-> SetItem(sw, doses, calc_total_infected(results, sys))]

\* body of the top-level loop over spending_array (chap12); e holds the
\* module-level variables; line is what print writes
hand_washing_loop_body(e, spending) ==
    LET sys0    == make_system(e.beta, e.gamma)
        sys     == add_hand_washing(sys0, spending)
        results == run_simulation(sys, 12)
    IN  [env  |-> [e EXCEPT !.spending = <<spending>>, !.system = <<sys>>,
                            !.results = <<results>>],
         line |-> [spending |-> spending, beta |-> sys.beta,
                   infected |-> calc_total_infected(results, sys)]]

\* body of the top-level loop over dose_array (chap12).  The statement
\* `results, run_simulation(system, update_func)` evaluates `results` and the
\* call and drops the pair: it binds nothing, so `results` keeps the value it
\* had before the loop
dose_loop_body(e, doses) ==
    LET fraction == Div(doses, num_students)
        spending == budget - doses * price_per_dose
        sys0     == make_system(e.beta, e.gamma)
        sys1     == add_immunization(sys0, fraction)
        sys      == add_hand_washing(sys1, spending)
    IN  [env  |-> [e EXCEPT !.fraction = <<fraction>>, !.spending = <<spending>>,
                            !.system = <<sys>>],
         line |-> [doses |-> doses, S |-> sys.init.S, beta |-> sys.beta,
                   infected |-> calc_total_infected(e.results[1], sys)]]

----------------------------------------------------------------------------
(* Inputs *)

\* rates given to an arbitrary System
Rates == {0, Div(1, 4), Div(1, 3), Num(1), Num(2)}

\* compartment values of an arbitrary initial State
Fractions == {0, Div(1, 4), Div(1, 2)}

ArbitrarySystems ==
    { System(State(s, i, r), t0, t_end, b, g) :
        s \in Fractions, i \in Fractions, r \in Fractions,
        t0 \in {0, 1}, t_end \in 0..MaxT, b \in Rates, g \in Rates }

\* the System of the notebooks: beta = 1/tc, gamma = 1/tr
NotebookSystem == make_system(Div(1, tc), Div(1, tr))

\* the sequences over a set of length at most MaxLen
SeqsUpTo(set) == UNION { [1..n -> set] : n \in 0..MaxLen }

BetaValues == {Div(1, 10), Div(1, 2), Div(9, 10)}

GammaValues == {Div(1, 10), Div(7, 10)}

SpendingValues == {0, 500, 1200}

\* the Systems given to an intervention alone
InterventionSystems ==
    { sys \in ArbitrarySystems : sys.t0 = 0 /\ sys.t_end = MaxT }
        \cup {NotebookSystem}

DoseValues == {0, 6, 12}

----------------------------------------------------------------------------
(* run_simulation, one loop iteration at a time *)

RunModes == {"run_simulation12", "run_simulation14"}

SweepModes == {"sweep_beta", "sweep_hand_washing", "sweep_doses"}

InterventionModes == {"add_immunization", "add_hand_washing"}

ChapOf(m) == IF m \in {"run_simulation14", "sweep_beta", "sweep_parameters"}
             THEN 14 ELSE 12

InitRun ==
    /\ mode \in RunModes
    /\ system \in ArbitrarySystems \cup {NotebookSystem}
    /\ args = << >>
    /\ env = Globals

InitSweep ==
    /\ \/ /\ mode = "sweep_beta"
          /\ args \in { [array |-> a, gamma |-> g] :
                            a \in SeqsUpTo(BetaValues), g \in GammaValues }
       \/ /\ mode = "sweep_parameters"
          /\ args \in { [array |-> a, beta_array |-> b] :
                            a \in SeqsUpTo(GammaValues), b \in SeqsUpTo(BetaValues) }
       \/ /\ mode = "sweep_hand_washing"
          /\ args \in { [array |-> a] : a \in SeqsUpTo(SpendingValues) }
       \/ /\ mode = "sweep_doses"
          /\ args \in { [array |-> a] : a \in SeqsUpTo(DoseValues) \cup {dose_array} }
    /\ system = NotebookSystem
    /\ env = Globals

\* an intervention called alone; args.before is the System as it is at the call
InitIntervention ==
    /\ mode \in InterventionModes
    /\ system \in InterventionSystems
    /\ \/ /\ mode = "add_immunization"
          /\ \E f \in Fractions : args = [before |-> system, fraction |-> f]
       \/ /\ mode = "add_hand_washing"
          /\ \E sp \in SpendingValues : args = [before |-> system, spending |-> sp]
    /\ env = Globals

\* the cells of chap12 from the hand-washing loop on, run in order
InitNotebook ==
    /\ mode = "notebook"
    /\ system = NotebookSystem
    /\ args = << >>
    /\ env = NotebookGlobals

Init ==
    /\ InitRun \/ InitSweep \/ InitIntervention \/ InitNotebook
    /\ pc = "call"
    /\ frame = TimeFrame
    /\ todo = << >>
    /\ calls = 0
    /\ pending = << >>
    /\ sweep = << >>
    /\ nsim = 0
    /\ printed = << >>

\* frame = TimeFrame(...); frame.row[t0] = init; the for loop is entered
RunCall ==
    /\ mode \in RunModes
    /\ pc = "call"
    /\ frame' = FirstRow(system)
    /\ todo' = LoopRange(system, ChapOf(mode))
    /\ pc' = "loop"
    /\ UNCHANGED <<mode, system, calls, args, pending, sweep, nsim, env, printed>>

RunStep ==
    /\ mode \in RunModes
    /\ pc = "loop"
    /\ todo # << >>
    /\ Head(todo) \in DOMAIN frame
    /\ frame' = LoopBody(frame, Head(todo), system)
    /\ todo' = Tail(todo)
    /\ calls' = calls + 1
    /\ UNCHANGED <<mode, pc, system, args, pending, sweep, nsim, env, printed>>

RunReturn ==
    /\ mode \in RunModes
    /\ pc = "loop"
    /\ todo = << >>
    /\ pc' = "done"
    /\ UNCHANGED <<mode, system, frame, todo, calls, args, pending, sweep, nsim, env, printed>>

----------------------------------------------------------------------------
(* The sweeps, one loop iteration at a time *)

\* sweep = SweepSeries() or frame = SweepFrame(columns=gamma_array); the for
\* loop is entered
SweepCall ==
    /\ mode \in SweepModes \cup {"sweep_parameters"}
    /\ pc = "call"
    /\ sweep' = IF mode = "sweep_parameters" THEN SweepFrame(args.array)
                ELSE sweep_new
    /\ pending' = args.array
    /\ pc' = "loop"
    /\ UNCHANGED <<mode, system, frame, todo, calls, args, nsim, env, printed>>

SweepBetaIter ==
    /\ mode = "sweep_beta"
    /\ pc = "loop"
    /\ pending # << >>
    /\ sweep' = sweep_beta_body(sweep, Head(pending), args.gamma)
    /\ pending' = Tail(pending)
    /\ nsim' = nsim + 1
    /\ UNCHANGED <<mode, pc, system, frame, todo, calls, args, env, printed>>

SweepParametersIter ==
    /\ mode = "sweep_parameters"
    /\ pc = "loop"
    /\ pending # << >>
    /\ sweep' = sweep_parameters_body(sweep, args.beta_array, Head(pending))
    /\ pending' = Tail(pending)
    /\ nsim' = nsim + Len(args.beta_array)
    /\ UNCHANGED <<mode, pc, system, frame, todo, calls, args, env, printed>>

SweepHandWashingIter ==
    /\ mode = "sweep_hand_washing"
    /\ pc = "loop"
    /\ pending # << >>
    /\ LET out == sweep_hand_washing_body(env, sweep, Head(pending))
       IN  /\ sweep' = out.sweep
           /\ env' = out.env
    /\ pending' = Tail(pending)
    /\ nsim' = nsim + 1
    /\ UNCHANGED <<mode, pc, system, frame, todo, calls, args, printed>>

SweepDosesIter ==
    /\ mode = "sweep_doses"
    /\ pc = "loop"
    /\ pending # << >>
    /\ LET out == sweep_doses_body(env, sweep, Head(pending))
       IN  /\ sweep' = out.sweep
           /\ env' = out.env
    /\ pending' = Tail(pending)
    /\ nsim' = nsim + 1
    /\ UNCHANGED <<mode, pc, system, frame, todo, calls, args, printed>>

SweepReturn ==
    /\ mode \in SweepModes \cup {"sweep_parameters"}
    /\ pc = "loop"
    /\ pending = << >>
    /\ pc' = "done"
    /\ UNCHANGED <<mode, system, frame, todo, calls, args, pending, sweep, nsim, env, printed>>

----------------------------------------------------------------------------
(* The interventions, called alone *)

\* add_immunization(system, fraction): changes the System it is given
AddImmunization ==
    /\ mode = "add_immunization"
    /\ pc = "call"
    /\ system' = add_immunization(system, args.fraction)
    /\ pc' = "done"
    /\ UNCHANGED <<mode, frame, todo, calls, args, pending, sweep, nsim, env, printed>>

\* add_hand_washing(system, spending): changes the System it is given
AddHandWashing ==
    /\ mode = "add_hand_washing"
    /\ pc = "call"
    /\ system' = add_hand_washing(system, args.spending)
    /\ pc' = "done"
    /\ UNCHANGED <<mode, frame, todo, calls, args, pending, sweep, nsim, env, printed>>

----------------------------------------------------------------------------
(* The top-level loops of chap12, one loop iteration at a time *)

\* spending_array = linspace(0, 1200, 13); the for loop is entered
NotebookHandWashingCell ==
    /\ mode = "notebook"
    /\ pc = "call"
    /\ pending' = spending_array
    /\ pc' = "hand_washing_loop"
    /\ UNCHANGED <<mode, system, frame, todo, calls, args, sweep, nsim, env, printed>>

HandWashingLoopIter ==
    /\ mode = "notebook"
    /\ pc = "hand_washing_loop"
    /\ pending # << >>
    /\ LET out == hand_washing_loop_body(env, Head(pending))
       IN  /\ env' = out.env
           /\ printed' = Append(printed, out.line)
    /\ pending' = Tail(pending)
    /\ nsim' = nsim + 1
    /\ UNCHANGED <<mode, pc, system, frame, todo, calls, args, sweep>>

\* the hand-washing loop is over; the cell of the dose loop starts with an
\* empty output and enters its for loop over the module-level dose_array
NotebookDoseCell ==
    /\ mode = "notebook"
    /\ pc = "hand_washing_loop"
    /\ pending = << >>
    /\ pending' = dose_array
    /\ printed' = << >>
    /\ pc' = "dose_loop"
    /\ UNCHANGED <<mode, system, frame, todo, calls, args, sweep, nsim, env>>

\* reading the unbound name `results` raises NameError
DoseLoopIter ==
    /\ mode = "notebook"
    /\ pc = "dose_loop"
    /\ pending # << >>
    /\ env.results # << >>
    /\ LET out == dose_loop_body(env, Head(pending))
       IN  /\ env' = out.env
           /\ printed' = Append(printed, out.line)
    /\ pending' = Tail(pending)
    /\ nsim' = nsim + 1
    /\ UNCHANGED <<mode, pc, system, frame, todo, calls, args, sweep>>

NotebookReturn ==
    /\ mode = "notebook"
    /\ pc = "dose_loop"
    /\ pending = << >>
    /\ pc' = "done"
    /\ UNCHANGED <<mode, system, frame, todo, calls, args, pending, sweep, nsim, env, printed>>

----------------------------------------------------------------------------

Next ==
    \/ RunCall
    \/ RunStep
    \/ RunReturn
    \/ SweepCall
    \/ SweepBetaIter
    \/ SweepParametersIter
    \/ SweepHandWashingIter
    \/ SweepDosesIter
    \/ SweepReturn
    \/ AddImmunization
    \/ AddHandWashing
    \/ NotebookHandWashingCell
    \/ HandWashingLoopIter
    \/ NotebookDoseCell
    \/ DoseLoopIter
    \/ NotebookReturn

Spec == Init /\ [][Next]_vars

----------------------------------------------------------------------------
(* Claims about update_func and run_simulation *)

\* the days d of the frame whose successor d + 1 is in the frame too
Steps == { d \in DOMAIN frame : d + 1 \in DOMAIN frame }

\* run_simulation has been entered: the frame has its first row
Running == mode \in RunModes /\ pc # "call"

\* C1: update_func conserves the population: each entry of the frame has the
\* same S + I + R as the entry of the day before, so when system.init sums to
\* 1 every entry of the series sums to 1.
C1_Conservation ==
    Running =>
        /\ \A d \in Steps : Total(frame[d + 1]) = Total(frame[d])
        /\ Total(system.init) = Num(1) =>
               \A d \in DOMAIN frame : Total(frame[d]) = Num(1)

\* C1 witness: a finished run from a normalised State in which people were
\* infected and people recovered.
C1_Witness ==
    /\ Running
    /\ pc = "done"
    /\ calls >= 2
    /\ Total(system.init) = Num(1)
    /\ frame[system.t0 + 2].S < system.init.S
    /\ frame[system.t0 + 2].R > system.init.R

\* C2: with t0 < t_end, run_simulation invokes the update rule t_end - t0
\* times and returns one entry for every day from t0 to t_end and none beyond.
C2_OneEntryPerDay ==
    (Running /\ pc = "done" /\ system.t0 < system.t_end) =>
        /\ calls = system.t_end - system.t0
        /\ DOMAIN frame = system.t0 .. system.t_end

\* C3: with t_end <= t0, run_simulation invokes no update and returns the
\* single entry system.init at t0.
C3_DegenerateRun ==
    (Running /\ pc = "done" /\ system.t_end <= system.t0) =>
        /\ calls = 0
        /\ DOMAIN frame = {system.t0}
        /\ frame[system.t0] = system.init

C5_NoRecovery ==
    (Running /\ system.gamma = 0 /\ system.beta > 0) =>
        \A d \in DOMAIN frame : frame[d].R = system.init.R

\* C5 witness: a finished run with gamma = 0 in which people were infected.
C5_Witness ==
    /\ Running
    /\ pc = "done"
    /\ system.gamma = 0
    /\ system.beta > 0
    /\ calls >= 2
    /\ frame[system.t0 + 2].I > system.init.I

\* C6: for make_system(1/3, 1/4) the entry at t = 0 has S = 89/90, S does not
\* increase from a day to the next, and calc_total_infected = S(0) - S(98) is
\* between 0 and 1.
C6_NotebookRun ==
    (Running /\ system = NotebookSystem) =>
        /\ 90 * frame[0].S = Num(89)
        /\ \A d \in Steps : frame[d + 1].S <= frame[d].S
        /\ pc = "done" =>
              /\ calc_total_infected(frame, system) >= 0
              /\ calc_total_infected(frame, system) <= Num(1)

\* C6 witness: the finished run of make_system(1/3, 1/4) by chap12's
\* run_simulation, in which part of the population was infected.
C6_Witness ==
    /\ mode = "run_simulation12"
    /\ system = NotebookSystem
    /\ system.t_end = 98
    /\ pc = "done"
    /\ calls = 98
    /\ calc_total_infected(frame, system) > Div(1, 4)

\* what a step of run_simulation may do to the frame and the System
AppendOnlyStep ==
    mode \in RunModes =>
        /\ \A d \in DOMAIN frame : d \in DOMAIN frame' /\ frame'[d] = frame[d]
        /\ system' = system
        /\ calls' # calls =>
               /\ Head(todo) + 1 \notin DOMAIN frame
               /\ DOMAIN frame' = DOMAIN frame \cup {Head(todo) + 1}

\* C13: the trace is append-only: a step of run_simulation leaves every
\* entry already written and the System (system.init included) as they are,
\* and an iteration of the loop for day t adds the entry for day t + 1 and
\* nothing else.
C13_AppendOnly == [][AppendOnlyStep]_vars

\* C13 witness: a finished run of two or more steps whose entries differ from
\* day to day while the entry at t0 is still system.init.
C13_Witness ==
    /\ Running
    /\ pc = "done"
    /\ calls >= 2
    /\ frame[system.t0] = system.init
    /\ frame[system.t0 + 1] # frame[system.t0]
    /\ frame[system.t0 + 2] # frame[system.t0 + 1]

\* the frame the run_simulation of the other notebook returns for the System
OtherFrame ==
    run_simulation(system, IF ChapOf(mode) = 12 THEN 14 ELSE 12)

\* C16: for the same System the run_simulation of chap12 and the one of
\* chap14 return frames with the same days and equal entries, and both hold
\* the entry at t_end that calc_total_infected reads.
C16_ImplementationsAgree ==
    (Running /\ pc = "done") =>
        /\ DOMAIN frame = DOMAIN OtherFrame
        /\ \A d \in DOMAIN frame \cap DOMAIN OtherFrame : frame[d] = OtherFrame[d]
        /\ system.t_end \in DOMAIN frame
        /\ system.t_end \in DOMAIN OtherFrame

----------------------------------------------------------------------------
(* Claims about the sweeps *)

\* the input values the for loop of the sweep has gone through
Processed == SubSeq(args.array, 1, Len(args.array) - Len(pending))

Sweeping == mode \in SweepModes /\ pc # "call"

NoRepeat(seq) == \A k, l \in DOMAIN seq : seq[k] = seq[l] => k = l

\* the values of seq without their repetitions, in order of first occurrence
RECURSIVE FirstOccurrences(_)
FirstOccurrences(seq) ==
    IF seq = << >> THEN << >>
    ELSE LET n    == Len(seq)
             rest == FirstOccurrences(SubSeq(seq, 1, n - 1))
         IN  IF seq[n] \in Range(rest) THEN rest ELSE Append(rest, seq[n])

\* the cell of row beta_array[i] and column gamma_array[j] exists and is the
\* entry for beta_array[i] of sweep_beta(beta_array, gamma_array[j])
CellsAgree ==
    \A i \in DOMAIN args.beta_array, j \in DOMAIN args.array :
        LET b == args.beta_array[i]
            g == args.array[j]
        IN  /\ <<b, g>> \in DOMAIN sweep.cells
            /\ sweep.cells[<<b, g>>] = Lookup(sweep_beta(args.beta_array, g), b)

C8_Original ==
    Sweeping =>
        /\ Len(sweep) = Len(Processed)
        /\ Keys(sweep) = Processed

\* C8, amended: after n values the result holds one entry for each distinct
\* value, keyed by the values in order of first occurrence; when the values
\* are distinct these are n entries in the order swept.
C8_Amended ==
    Sweeping =>
        /\ Keys(sweep) = FirstOccurrences(Processed)
        /\ NoRepeat(Processed) =>
               /\ Len(sweep) = Len(Processed)
               /\ Keys(sweep) = Processed

\* C8 witness: a finished 1-D sweep of two distinct values that holds two
\* entries with different summaries.
C8_Witness ==
    /\ Sweeping
    /\ pc = "done"
    /\ Len(args.array) = 2
    /\ args.array[1] # args.array[2]
    /\ Len(sweep) = 2
    /\ sweep[1].val # sweep[2].val

\* C9: a 1-D sweep of an empty input sequence runs no simulation and returns
\* an empty result.
C9_EmptySweep ==
    (Sweeping /\ args.array = << >>) =>
        /\ nsim = 0
        /\ sweep = SweepSeries

\* C9 witness: a 1-D sweep of the empty sequence has returned.
C9_Witness ==
    /\ mode \in SweepModes
    /\ args.array = << >>
    /\ pc = "done"

\* the System a sweep iteration for the value v simulates when it starts
\* from the module-level beta and gamma alone
FreshSystem(m, v) ==
    LET base == make_system(Div(1, tc), Div(1, tr))
    IN  IF m = "sweep_hand_washing" THEN add_hand_washing(base, v)
        ELSE add_hand_washing(add_immunization(base, Div(v, num_students)),
                              budget - v * price_per_dose)

\* the summary a sweep of the single value v records
Alone(m, v) ==
    LET out == IF m = "sweep_hand_washing"
               THEN sweep_hand_washing_body(Globals, SweepSeries, v)
               ELSE sweep_doses_body(Globals, SweepSeries, v)
    IN  Lookup(out.sweep, v)

\* C10: the iterations of sweep_hand_washing and sweep_doses are independent:
\* the module-level beta and gamma keep their values, the System an iteration
\* leaves is the one built from them for its value alone, and the summary
\* recorded for a value is the one a sweep of that value alone records.
C10_Independent ==
    (mode \in {"sweep_hand_washing", "sweep_doses"} /\ pc # "call") =>
        /\ env.beta = Div(1, tc)
        /\ env.gamma = Div(1, tr)
        /\ Processed # << >> =>
               env.system = <<FreshSystem(mode, Processed[Len(Processed)])>>
        /\ \A k \in DOMAIN sweep : sweep[k].val = Alone(mode, sweep[k].key)

\* C10 witness: sweep_hand_washing has swept 1200 and then 0 dollars; the
\* first iteration lowered its system.beta, the second one simulated a beta
\* lowered by the factor of 0 dollars only and recorded more infections.
C10_Witness ==
    /\ mode = "sweep_hand_washing"
    /\ pc = "done"
    /\ args.array = <<1200, 0>>
    /\ Keys(sweep) = <<1200, 0>>
    /\ sweep[1].val < sweep[2].val
    /\ env.system[1].beta < env.beta
    /\ env.system[1].beta > Mul(env.beta, Num(1) - compute_factor(1200))

----------------------------------------------------------------------------
(* Claims about the interventions *)

\* C11: add_immunization(system, fraction) lowers system.init.S by fraction
\* and raises system.init.R by fraction; system.init.I, the sum S + I + R,
\* beta, gamma, t0 and t_end stay as they were.
C11_AddImmunization ==
    (mode = "add_immunization" /\ pc = "done") =>
        /\ system.init.S = args.before.init.S - args.fraction
        /\ system.init.R = args.before.init.R + args.fraction
        /\ system.init.I = args.before.init.I
        /\ Total(system.init) = Total(args.before.init)
        /\ system.beta = args.before.beta
        /\ system.gamma = args.before.gamma
        /\ system.t0 = args.before.t0
        /\ system.t_end = args.before.t_end

\* C11 witness: add_immunization has moved a positive fraction from S to R.
C11_Witness ==
    /\ mode = "add_immunization"
    /\ pc = "done"
    /\ args.fraction > 0
    /\ args.before.init.S >= args.fraction
    /\ system.init.S < args.before.init.S
    /\ system.init.R > args.before.init.R

\* C12: add_hand_washing(system, spending) replaces system.beta by
\* beta * (1 - compute_factor(spending)) and leaves system.init, gamma, t0 and
\* t_end as they were; a sweep applies it once to each System it builds, so
\* the beta it simulates is the module-level beta reduced once.
C12_AddHandWashing ==
    /\ (mode = "add_hand_washing" /\ pc = "done") =>
           /\ system.beta = Mul(args.before.beta,
                                Num(1) - compute_factor(args.spending))
           /\ system.init = args.before.init
           /\ system.gamma = args.before.gamma
           /\ system.t0 = args.before.t0
           /\ system.t_end = args.before.t_end
    /\ (mode \in {"sweep_hand_washing", "sweep_doses"} /\ pc # "call"
            /\ Processed # << >>) =>
           LET v        == Processed[Len(Processed)]
               spending == IF mode = "sweep_hand_washing" THEN v
                           ELSE budget - v * price_per_dose
           IN  env.system[1].beta =
                   Mul(Div(1, tc), Num(1) - compute_factor(spending))

\* C12 witness: add_hand_washing has lowered a positive beta by the factor of
\* 500 dollars, one tenth.
C12_Witness ==
    /\ mode = "add_hand_washing"
    /\ pc = "done"
    /\ args.spending = 500
    /\ args.before.beta > 0
    /\ 10 * compute_factor(args.spending) = Num(1)
    /\ system.beta < args.before.beta
    /\ system.beta > Mul(args.before.beta, Div(8, 10))

----------------------------------------------------------------------------
(* Claims about the budget allocation *)

\* the fraction infected in the simulation of the System built for doses
InfectedWith(doses) ==
    LET sys == FreshSystem("sweep_doses", doses)
    IN  calc_total_infected(run_simulation(sys, 12), sys)

\* C14: in the loop over dose_array the fraction infected reported for a dose
\* count is the one of the simulation of the System built in that iteration,
\* in the top-level loop (the lines it prints) and in sweep_doses (the entries
\* it records).
C14_SameIterationResults ==
    /\ (mode = "notebook" /\ pc \in {"dose_loop", "done"}) =>
           \A k \in DOMAIN printed :
               printed[k].infected = InfectedWith(printed[k].doses)
    /\ (mode = "sweep_doses" /\ pc # "call") =>
           \A k \in DOMAIN sweep : sweep[k].val = InfectedWith(sweep[k].key)

\* C15: for every doses of dose_array, doses * price_per_dose + spending is
\* the budget with 0 <= spending <= budget, the immunized fraction
\* doses / num_students is at most the initial S, and system.init.S is not
\* negative after add_immunization: in sweep_doses, whose System shows the
\* fraction and the spending it was built with, and in the top-level loop,
\* whose fraction and spending are module-level variables.
C15_BudgetInvariant ==
    /\ (mode = "sweep_doses" /\ pc # "call" /\ args.array = dose_array
            /\ Processed # << >>) =>
           LET doses    == Processed[Len(Processed)]
               spending == budget - doses * price_per_dose
               fraction == Div(doses, num_students)
           IN  /\ doses * price_per_dose + spending = budget
               /\ 0 <= spending /\ spending <= budget
               /\ fraction <= NotebookSystem.init.S
               /\ env.system[1].init.S = NotebookSystem.init.S - fraction
               /\ env.system[1].init.S >= 0
               /\ env.system[1].beta =
                      Mul(Div(1, tc), Num(1) - compute_factor(spending))
    /\ (mode = "notebook" /\ pc \in {"dose_loop", "done"} /\ printed # << >>) =>
           LET doses    == printed[Len(printed)].doses
               spending == env.spending[1]
               fraction == env.fraction[1]
           IN  /\ doses * price_per_dose + spending = budget
               /\ 0 <= spending /\ spending <= budget
               /\ fraction <= NotebookSystem.init.S
               /\ env.system[1].init.S = NotebookSystem.init.S - fraction
               /\ env.system[1].init.S >= 0

\* C15 witness: sweep_doses(dose_array) has returned; its last iteration
\* bought max_doses doses, left nothing for the campaign and immunized 12 of
\* the 89 susceptible students.
C15_Witness ==
    /\ mode = "sweep_doses"
    /\ pc = "done"
    /\ args.array = dose_array
    /\ Len(sweep) = max_doses + 1
    /\ sweep[Len(sweep)].key * price_per_dose = budget
    /\ num_students * env.system[1].init.S = Num(89 - max_doses)
    /\ env.system[1].beta = Mul(Div(1, tc), Num(1) - compute_factor(0))

====
